---- MODULE Spec2Model ----
(***************************************************************************)
(* CellCanvasApp (src/cellcanvas/app.py): sparse painting of a 3D label    *)
(* volume, a background fit worker, a background prediction worker, the    *)
(* debounced refresh (class statistics and PLS embedding) and the lasso    *)
(* selection that paints labels from a worker thread.                      *)
(*                                                                         *)
(* Arrays are modelled as records [shape, data]: data is the C-order       *)
(* flattening (numpy's default), data[i] holding flat index i-1.           *)
(*                                                                         *)
(* thread_worker (napari.qt.threading, a superqt FunctionWorker) is        *)
(* modelled by what app.py relies on: the decorated call builds a worker,  *)
(* start() hands it to the thread pool, run() calls the function and, if   *)
(* quit() has not set the abort flag by then, emits `returned`, which is   *)
(* queued to the main thread; an exception is emitted as `errored` and     *)
(* re-raised on the main thread.  quit() only sets the flag: the function  *)
(* is never interrupted.                                                   *)
(***************************************************************************)
EXTENDS Integers, Sequences, FiniteSets, TLC

\* Bounds of the model.
MaxLabel == 2
MaxFeat == 1
MaxFits == 2
MaxPredicts == 2
MaxThreads == 1
MaxSelections == 2
MaxDim == 3
MaxVox == 6
MaxBgFeat == 2
MaxBg == 1

\* Python's None, and an attribute no statement has assigned yet
None == <<>>
Unset == [unset |-> TRUE]
Labels == 0..MaxLabel
FeatVals == 0..MaxFeat
BgFeatVals == 0..MaxBgFeat

VARIABLES
  feature_data_tomotwin,      \* [shape, data]: read-only feature volume (one value per voxel)
  painting_data,              \* [shape, data]: the label volume
  prediction_data,            \* [shape, data]: the prediction volume
  prediction_labels,          \* None or the sorted labels np.unique returned
  prediction_counts,          \* None or their counts
  model,                      \* None or the fitted classifier
  features,                   \* Unset until start_model_fit assigns self.features
  workers,                    \* every thread_worker created so far
  model_fit_worker,           \* 0 (None) or an index into workers
  prediction_worker,
  background_estimation_worker,
  events,                     \* signals queued to the main thread, oldest first
  live_pred,                  \* live_pred_checkbox.isChecked()
  raised,                     \* exception the last main-thread handler ended with
  painting_labels,            \* np.unique of the label volume at the last refresh
  painting_counts,
  pls,                        \* Unset or the fitted PLSRegression
  pls_embedding,              \* Unset or the 2D points of the labeled voxels
  filtered_coords,            \* Unset or the coordinates kept beside pls_embedding
  chart,                      \* None or what the class distribution figure shows
  timer,                      \* the debounce of the paint event is pending
  threads,                    \* the paint threads update_painting_layer started
  partial_read                \* the last batch read saw a selection half written

jobVars == <<prediction_data, prediction_labels, prediction_counts, model, features,
             workers, model_fit_worker, prediction_worker,
             background_estimation_worker, events, live_pred>>

embVars == <<painting_labels, painting_counts, pls, pls_embedding, filtered_coords,
             chart>>

selVars == <<embVars, timer, threads, partial_read>>

vars == <<feature_data_tomotwin, painting_data, jobVars, raised, selVars>>

----------------------------------------------------------------------------
\* numpy helpers

\* the workers of one kind created so far
Jobs(kind) == {j \in DOMAIN workers : workers[j].kind = kind}
Count(kind) == Cardinality(Jobs(kind))

NVoxels(sh) == sh[1] * sh[2] * sh[3]

\* C-order flat index (0-based) of coordinate c in an array of shape sh
Ravel(c, sh) == (c[1] * sh[2] + c[2]) * sh[3] + c[3]

\* np.unravel_index(idx, sh)
Unravel(idx, sh) ==
  <<idx \div (sh[2] * sh[3]), (idx \div sh[3]) % sh[2], idx % sh[3]>>

\* np.transpose of a 3D array: axes reversed
Transpose(a) ==
  LET sh == a.shape
      tsh == <<sh[3], sh[2], sh[1]>>
  IN [shape |-> tsh,
      data |-> [i \in 1..NVoxels(sh) |->
                  LET c == Unravel(i - 1, tsh)
                  IN a.data[Ravel(<<c[3], c[2], c[1]>>, sh) + 1]]]

Values(d) == {d[i] : i \in DOMAIN d}

RECURSIVE Sorted(_)
Sorted(S) ==
  IF S = {} THEN <<>>
  ELSE LET m == CHOOSE x \in S : \A y \in S : x <= y
       IN <<m>> \o Sorted(S \ {m})

\* np.unique(a, return_counts=True): the sorted distinct values, and how often each occurs
UniqueLabels(d) == Sorted(Values(d))
UniqueCounts(d) ==
  LET u == UniqueLabels(d)
  IN [k \in 1..Len(u) |-> Cardinality({i \in DOMAIN d : d[i] = u[k]})]

Zeros(sh) == [shape |-> sh, data |-> [i \in 1..NVoxels(sh) |-> 0]]

----------------------------------------------------------------------------
\* The classifier and the two worker functions

\* the mask `labels > 0` keeping every row (used to test C18)
Positive_all(d) == [i \in 1..Len(d) |-> i]

\* indices (ascending) of the entries of d that are > 0: the mask `labels > 0`
Positive(d) ==
  LET keep(i) == d[i] > 0
  IN SelectSeq([i \in 1..Len(d) |-> i], keep)

\* update_model: every classifier the fit may return, or None when nothing is labeled.
\* A classifier is what it was fitted on (X, y) and its decision function, which the
\* fit chooses among the functions from feature values to the classes it saw.
update_model(labels, feats) ==
  LET valid == Positive(labels.data)
      filtered_features == [k \in 1..Len(valid) |-> feats.data[valid[k]]]
      filtered_labels == [k \in 1..Len(valid) |-> labels.data[valid[k]] - 1]
  IN IF Len(filtered_labels) = 0
     THEN {None}
     ELSE {[X |-> filtered_features, y |-> filtered_labels, decide |-> d] :
             d \in [FeatVals -> Values(filtered_labels)]}

\* predict: class index + 1 for every voxel, its statistics, and the transposed volume
predict(m, feats) ==
  LET prediction == [shape |-> feats.shape,
                     data |-> [i \in 1..Len(feats.data) |-> m.decide[feats.data[i]] + 1]]
  IN [prediction |-> Transpose(prediction),
      prediction_labels |-> UniqueLabels(prediction.data),
      prediction_counts |-> UniqueCounts(prediction.data)]

\* worker.quit(): sets the abort flag of worker w (0 is no worker)
Quit(ws, w) == IF w = 0 THEN ws ELSE [ws EXCEPT ![w].abort = TRUE]

\* whether some fit has published a classifier
EverFit ==
  \E j \in Jobs("fit") : workers[j].st = "delivered" /\ workers[j].result # None

\* A worker as the decorated call builds it and start() queues it.  no_model records
\* for the claims what the request saw: that no classifier had been fitted yet.
NewWorker(kind, labels, feats) ==
  [kind |-> kind, labels |-> labels, features |-> feats,
   st |-> "pending", abort |-> FALSE, result |-> None, no_model |-> ~EverFit]

----------------------------------------------------------------------------
\* The embedding and the lasso selection

\* PLSRegression.transform: the 2D point of feature value f under projection p.
\* The projection is a function of what it was fitted on, the point a function of
\* the projection and the feature value.
Transform(p, f) == [proj |-> p, feat |-> f]

\* Path.contains_point: a lasso path is the projection it was drawn over and the
\* feature values whose points it encloses there
ContainsPoint(path, point) ==
  point.proj = path.proj /\ point.feat \in path.inside

\* original_coords: np.meshgrid(arange(x_dim), arange(y_dim), arange(z_dim),
\* indexing='ij'), ravelled and stacked as columns
OriginalCoords(sh) ==
  LET z_dim == sh[1]
      y_dim == sh[2]
      x_dim == sh[3]
  IN [i \in 1..NVoxels(sh) |-> Unravel(i - 1, <<x_dim, y_dim, z_dim>>)]

\* create_embedding_plot dropping the projection when fewer than two voxels are labeled
\* (used to test C15)
create_embedding_plot_reset(old) ==
  LET labels == painting_data.data
      valid == Positive(labels)
      filtered_features == [k \in 1..Len(valid) |-> feature_data_tomotwin.data[valid[k]]]
      filtered_labels == [k \in 1..Len(valid) |-> labels[valid[k]]]
      fitted == [X |-> filtered_features, y |-> filtered_labels, rows |-> valid]
  IN <<fitted,
       [k \in 1..Len(valid) |-> Transform(fitted, filtered_features[k])],
       [k \in 1..Len(valid) |->
          OriginalCoords(feature_data_tomotwin.shape)[valid[k]]]>>

\* create_embedding_plot: the new <<pls, pls_embedding, filtered_coords>>, old the
\* three attributes before the call.  The projection is what it was fitted on (X, y);
\* rows keeps, for the claims, the voxels (1-based flat indices) the rows of X are
\* from, which are the voxels of the mask `labels > 0`.
create_embedding_plot(old) ==
  LET labels == painting_data.data
      valid == Positive(labels)
      filtered_features == [k \in 1..Len(valid) |-> feature_data_tomotwin.data[valid[k]]]
      filtered_labels == [k \in 1..Len(valid) |-> labels[valid[k]]]
      fitted == [X |-> filtered_features, y |-> filtered_labels, rows |-> valid]
      original_coords == OriginalCoords(feature_data_tomotwin.shape)
  IN IF Len(valid) < 2
     THEN old
     ELSE <<fitted,
            [k \in 1..Len(valid) |-> Transform(fitted, filtered_features[k])],
            [k \in 1..Len(valid) |-> original_coords[valid[k]]]>>

\* the voxels (1-based flat indices) a paint thread has written so far
Written(t) == t.contained \ Values(t.todo)

\* some paint thread has changed the volume and has writes left that change it more
HalfWritten ==
  \E k \in DOMAIN threads :
    /\ threads[k].st = "writing"
    /\ threads[k].changed
    /\ \E v \in Values(threads[k].todo) : painting_data.data[v] # threads[k].target_label

----------------------------------------------------------------------------
\* The class distribution figure

\* (count / total_pixels) * 100, kept as the fraction num / den
Percentage(count, total_pixels) == [num |-> 100 * count, den |-> total_pixels]

\* the bars of the labels > 0: label and percentage
Bars(labels, counts, total_pixels) ==
  LET keep(k) == labels[k] > 0
      valid == SelectSeq([k \in 1..Len(labels) |-> k], keep)
  IN [b \in 1..Len(valid) |->
        [label |-> labels[valid[b]],
         percentage |-> Percentage(counts[valid[b]], total_pixels)]]

\* update_class_distribution_charts: what the figure shows after the call, old what it
\* showed before; pl, pc, rl, rc are the painting and the prediction statistics
update_class_distribution_charts(pl, pc, rl, rc, old) ==
  LET total_pixels == NVoxels(painting_data.shape)
      zero == {k \in DOMAIN pl : pl[k] = 0}
  IN IF rl = None \/ pl = None
     THEN old
     ELSE [unpainted |-> IF zero # {}
                         THEN Percentage(pc[CHOOSE k \in zero : TRUE], total_pixels)
                         ELSE Percentage(0, total_pixels),
           painting |-> Bars(pl, pc, total_pixels),
           prediction |-> Bars(rl, rc, total_pixels)]

----------------------------------------------------------------------------
\* Main-thread handlers

\* a brush stroke of the user on the Painting layer: the layer's paint event restarts
\* the debounce of on_data_change
Paint(i, l) ==
  /\ painting_data.data[i] # l
  /\ painting_data' = [painting_data EXCEPT !.data[i] = l]
  /\ timer' = TRUE
  /\ UNCHANGED <<feature_data_tomotwin, jobVars, raised, embVars, threads, partial_read>>

\* on_data_change going on to fit the model, as threaded_on_data_change would (used to
\* test C22)
on_data_change_live_fit ==
  /\ timer
  /\ timer' = FALSE
  /\ painting_labels' = UniqueLabels(painting_data.data)
  /\ painting_counts' = UniqueCounts(painting_data.data)
  /\ chart' = update_class_distribution_charts(painting_labels', painting_counts',
                                                prediction_labels, prediction_counts,
                                                chart)
  /\ pls' = create_embedding_plot(<<pls, pls_embedding, filtered_coords>>)[1]
  /\ pls_embedding' = create_embedding_plot(<<pls, pls_embedding, filtered_coords>>)[2]
  /\ filtered_coords' = create_embedding_plot(<<pls, pls_embedding, filtered_coords>>)[3]
  /\ partial_read' = HalfWritten
  /\ raised' = "none"
  /\ features' = feature_data_tomotwin
  /\ workers' = Append(Quit(workers, model_fit_worker),
                       NewWorker("fit", painting_data, feature_data_tomotwin))
  /\ model_fit_worker' = Len(workers) + 1
  /\ UNCHANGED <<feature_data_tomotwin, painting_data, prediction_data,
                 prediction_labels, prediction_counts, model, prediction_worker,
                 background_estimation_worker, events, live_pred, threads>>

\* on_data_change called by a debounce that stays armed after the call (used to test
\* C29)
on_data_change_rearmed ==
  /\ timer
  /\ timer' = TRUE
  /\ painting_labels' = UniqueLabels(painting_data.data)
  /\ painting_counts' = UniqueCounts(painting_data.data)
  /\ chart' = update_class_distribution_charts(painting_labels', painting_counts',
                                                prediction_labels, prediction_counts,
                                                chart)
  /\ pls' = create_embedding_plot(<<pls, pls_embedding, filtered_coords>>)[1]
  /\ pls_embedding' = create_embedding_plot(<<pls, pls_embedding, filtered_coords>>)[2]
  /\ filtered_coords' = create_embedding_plot(<<pls, pls_embedding, filtered_coords>>)[3]
  /\ partial_read' = HalfWritten
  /\ raised' = "none"
  /\ UNCHANGED <<feature_data_tomotwin, painting_data, jobVars, threads>>

\* on_data_change, called when the debounce (timeout=1000) expires
on_data_change ==
  /\ timer
  /\ timer' = FALSE
  /\ painting_labels' = UniqueLabels(painting_data.data)
  /\ painting_counts' = UniqueCounts(painting_data.data)
  /\ chart' = update_class_distribution_charts(painting_labels', painting_counts',
                                                prediction_labels, prediction_counts,
                                                chart)
  /\ pls' = create_embedding_plot(<<pls, pls_embedding, filtered_coords>>)[1]
  /\ pls_embedding' = create_embedding_plot(<<pls, pls_embedding, filtered_coords>>)[2]
  /\ filtered_coords' = create_embedding_plot(<<pls, pls_embedding, filtered_coords>>)[3]
  /\ partial_read' = HalfWritten
  /\ raised' = "none"
  /\ UNCHANGED <<feature_data_tomotwin, painting_data, jobVars, threads>>

\* start_model_fit ("Fit Model Now", or ticking "Live Model Fitting")
start_model_fit ==
  /\ Count("fit") < MaxFits
  /\ features' = feature_data_tomotwin
  /\ workers' = Append(Quit(workers, model_fit_worker),
                       NewWorker("fit", painting_data, feature_data_tomotwin))
  /\ model_fit_worker' = Len(workers) + 1
  /\ partial_read' = HalfWritten
  /\ raised' = "none"
  /\ UNCHANGED <<feature_data_tomotwin, painting_data, prediction_data,
                 prediction_labels, prediction_counts, model, prediction_worker,
                 background_estimation_worker, events, live_pred, embVars, timer,
                 threads>>

\* the body of start_prediction on the worker variables: the previous worker is told
\* to quit, then get_features() reads self.features, which exists only once
\* start_model_fit has run
StartPredictionBody ==
  IF features = Unset
  THEN /\ workers' = Quit(workers, prediction_worker)
       /\ raised' = "AttributeError"
       /\ UNCHANGED prediction_worker
  ELSE /\ workers' = Append(Quit(workers, prediction_worker),
                            NewWorker("predict", None, features))
       /\ prediction_worker' = Len(workers) + 1
       /\ raised' = "none"

\* start_prediction ("Predict Now")
start_prediction ==
  /\ Count("predict") < MaxPredicts
  /\ StartPredictionBody
  /\ UNCHANGED <<feature_data_tomotwin, painting_data, prediction_data,
                 prediction_labels, prediction_counts, model, features,
                 model_fit_worker, background_estimation_worker, events, live_pred,
                 selVars>>

\* on_live_pred_changed: the checkbox toggles; ticking it starts a prediction
on_live_pred_changed ==
  /\ live_pred' = ~live_pred
  /\ IF live_pred'
     THEN Count("predict") < MaxPredicts /\ StartPredictionBody
     ELSE raised' = "none" /\ UNCHANGED <<workers, prediction_worker>>
  /\ UNCHANGED <<feature_data_tomotwin, painting_data, prediction_data,
                 prediction_labels, prediction_counts, model, features,
                 model_fit_worker, background_estimation_worker, events, selVars>>

\* start_background_estimation(model_type, features, labels) is connected to
\* estimate_background_button.clicked, which passes at most `checked`: the call
\* fails for want of arguments before the first statement
start_background_estimation ==
  /\ raised' = "TypeError"
  /\ UNCHANGED <<feature_data_tomotwin, painting_data, jobVars, selVars>>

\* update_painting_layer painting only the voxels the projection was fitted on
\* (used to test C9)
update_painting_layer_labeled_only(inside, target_label) ==
  /\ LET contained == IF pls = Unset THEN {}
                      ELSE {i \in Values(pls.rows) :
                              feature_data_tomotwin.data[i] \in inside}
     IN threads' = Append(threads,
          [inside |-> inside, target_label |-> target_label, changed |-> FALSE,
           st |-> IF pls = Unset THEN "errored"
                  ELSE IF contained = {} THEN "done" ELSE "writing",
           rows |-> IF pls = Unset THEN <<>> ELSE pls.rows,
           contained |-> contained, todo |-> Sorted(contained),
           printed |-> IF pls # Unset /\ contained = {} THEN <<0>> ELSE <<>>])
  /\ raised' = "none"
  /\ UNCHANGED <<feature_data_tomotwin, painting_data, jobVars, embVars, timer,
                 partial_read>>

\* update_painting_layer and the head of the paint_thread it starts (up to the loop).
\* The lasso's onselect hands over the path drawn over the current embedding; the
\* target is the Painting layer's selected label.  The thread projects every voxel
\* through self.pls and tests it against the path; with no projection fitted yet the
\* attribute read raises inside the thread.  rows keeps, for the claims, the voxels
\* the projection in use was fitted on; printed is what the thread has printed of
\* "Painted n pixels": nothing, or n.
update_painting_layer(inside, target_label) ==
  /\ LET lasso_path == [proj |-> pls, inside |-> inside]
         all_embeddings == [i \in DOMAIN feature_data_tomotwin.data |->
                              Transform(pls, feature_data_tomotwin.data[i])]
         contained == {i \in DOMAIN all_embeddings :
                         ContainsPoint(lasso_path, all_embeddings[i])}
         thread == [inside |-> inside, target_label |-> target_label,
                    changed |-> FALSE]
     IN threads' = Append(threads,
          IF pls = Unset
          THEN thread @@ [st |-> "errored", rows |-> <<>>, contained |-> {},
                          todo |-> <<>>, printed |-> <<>>]
          ELSE thread @@ [st |-> IF contained = {} THEN "done" ELSE "writing",
                          rows |-> pls.rows, contained |-> contained,
                          todo |-> Sorted(contained),
                          printed |-> IF contained = {} THEN <<0>> ELSE <<>>])
  /\ raised' = "none"
  /\ UNCHANGED <<feature_data_tomotwin, painting_data, jobVars, embVars, timer,
                 partial_read>>

----------------------------------------------------------------------------
\* Worker threads

\* run() of a fit worker: model_fit_thread, then the abort check
model_fit_thread(j) ==
  /\ workers[j].kind = "fit" /\ workers[j].st = "pending"
  /\ \E r \in update_model(workers[j].labels, workers[j].features) :
       workers' = [workers EXCEPT ![j].result = r,
                     ![j].st = IF workers[j].abort THEN "dropped" ELSE "emitting"]
  /\ UNCHANGED <<feature_data_tomotwin, painting_data, prediction_data,
                 prediction_labels, prediction_counts, model, features,
                 model_fit_worker, prediction_worker, background_estimation_worker,
                 events, live_pred, raised, selVars>>

\* run() of a prediction worker: prediction_thread reads self.model when it runs;
\* predict_segmenter on None raises, which run() emits as `errored`
prediction_thread(j) ==
  /\ workers[j].kind = "predict" /\ workers[j].st = "pending"
  /\ IF model = None
     THEN /\ workers' = [workers EXCEPT ![j].st = "errored"]
          /\ events' = Append(events, j)
     ELSE /\ workers' = [workers EXCEPT ![j].result = predict(model, workers[j].features),
                           ![j].st = IF workers[j].abort THEN "dropped" ELSE "emitting"]
          /\ UNCHANGED events
  /\ UNCHANGED <<feature_data_tomotwin, painting_data, prediction_data,
                 prediction_labels, prediction_counts, model, features,
                 model_fit_worker, prediction_worker, background_estimation_worker,
                 live_pred, raised, selVars>>

\* run(): self.returned.emit(results), after the abort check let it through
EmitReturned(j) ==
  /\ workers[j].st = "emitting"
  /\ workers' = [workers EXCEPT ![j].st = "returned"]
  /\ events' = Append(events, j)
  /\ UNCHANGED <<feature_data_tomotwin, painting_data, prediction_data,
                 prediction_labels, prediction_counts, model, features,
                 model_fit_worker, prediction_worker, background_estimation_worker,
                 live_pred, raised, selVars>>

\* paint_thread's loop pass storing the label at every flat index up to the contained
\* one (used to test C20)
PaintThreadWrite_upto(k) ==
  /\ threads[k].st = "writing"
  /\ LET at == Head(threads[k].todo)
         last == Len(threads[k].todo) = 1
     IN /\ painting_data' =
             [painting_data EXCEPT !.data =
                [i \in DOMAIN painting_data.data |->
                   IF i <= at THEN threads[k].target_label ELSE painting_data.data[i]]]
        /\ threads' = [threads EXCEPT
                         ![k].todo = Tail(threads[k].todo),
                         ![k].changed = TRUE,
                         ![k].st = IF last THEN "done" ELSE "writing",
                         ![k].printed = IF last
                                        THEN <<Cardinality(threads[k].contained)>>
                                        ELSE <<>>]
  /\ UNCHANGED <<feature_data_tomotwin, jobVars, raised, embVars, timer, partial_read>>

\* one pass of paint_thread's loop: the next contained index is unravelled against the
\* volume shape and the target label stored there; after the last one the thread
\* prints how many points were contained, and ends
PaintThreadWrite(k) ==
  /\ threads[k].st = "writing"
  /\ LET idx == Head(threads[k].todo) - 1
         shape == feature_data_tomotwin.shape
         zyx == Unravel(idx, shape)
         at == Ravel(zyx, painting_data.shape) + 1
         last == Len(threads[k].todo) = 1
     IN /\ painting_data' = [painting_data EXCEPT !.data[at] = threads[k].target_label]
        /\ threads' = [threads EXCEPT
                         ![k].todo = Tail(threads[k].todo),
                         ![k].changed = threads[k].changed
                                          \/ painting_data.data[at] # threads[k].target_label,
                         ![k].st = IF last THEN "done" ELSE "writing",
                         ![k].printed = IF last
                                        THEN <<Cardinality(threads[k].contained)>>
                                        ELSE <<>>]
  /\ UNCHANGED <<feature_data_tomotwin, jobVars, raised, embVars, timer, partial_read>>

----------------------------------------------------------------------------
\* The background estimator.  Features have one channel, so the Euclidean distance is
\* the absolute difference.  np.median averages the two middle values and
\* np.percentile interpolates linearly, so distances are kept doubled and the
\* threshold is kept times 100: every comparison is between integers.

Abs(x) == IF x < 0 THEN -x ELSE x

\* ascending, with repetitions
SortValues(d) == SortSeq(d, LAMBDA a, b : a < b)

\* 2 * np.median(d)
Median2(d) ==
  LET s == SortValues(d)
      n == Len(d)
  IN IF n % 2 = 1 THEN 2 * s[(n + 1) \div 2] ELSE s[n \div 2] + s[n \div 2 + 1]

\* 2 * distances: 2 * sqrt((embedding_data - median_embedding) ** 2)
Distances2(d) == [i \in 1..Len(d) |-> Abs(2 * d[i] - Median2(d))]

\* 100 * np.percentile(a, 1): linear interpolation at position 0.01 * (n - 1)
Percentile1x100(a) ==
  LET s == SortValues(a)
      q == Len(a) - 1
      lo == q \div 100
      fr == q % 100
  IN 100 * s[lo + 1] + (IF fr = 0 THEN 0 ELSE (s[lo + 2] - s[lo + 1]) * fr)

\* background_mask = distances < threshold, as flat indices (1-based)
BackgroundMask(d) ==
  {i \in 1..Len(d) : 100 * Distances2(d)[i] < Percentile1x100(Distances2(d))}

\* estimate_background called and started as a worker, up to the write loop.  (The
\* button cannot do it, see start_background_estimation.)  No slot is connected to
\* `returned`, so the worker just ends.
estimate_background ==
  /\ Count("background") < MaxBg
  /\ LET indices == Sorted(BackgroundMask(feature_data_tomotwin.data))
     IN workers' = Append(workers,
          [NewWorker("background", None, feature_data_tomotwin) EXCEPT
             !.st = IF indices = <<>> THEN "done" ELSE "writing"]
            @@ [indices |-> indices, i |-> 0])
  /\ UNCHANGED <<feature_data_tomotwin, painting_data, prediction_data,
                 prediction_labels, prediction_counts, model, features,
                 model_fit_worker, prediction_worker, background_estimation_worker,
                 events, live_pred, raised, selVars>>

\* one pass of estimate_background's loop: the background class (1) is stored at the
\* i-th index of the mask
BackgroundWrite(j) ==
  /\ workers[j].kind = "background" /\ workers[j].st = "writing"
  /\ LET idx == workers[j].indices[workers[j].i + 1] - 1
         zyx == Unravel(idx, feature_data_tomotwin.shape)
         at == Ravel(zyx, painting_data.shape) + 1
     IN /\ painting_data' = [painting_data EXCEPT !.data[at] = 1]
        /\ workers' = [workers EXCEPT
                         ![j].i = workers[j].i + 1,
                         ![j].st = IF workers[j].i + 1 = Len(workers[j].indices)
                                   THEN "done" ELSE "writing"]
  /\ UNCHANGED <<feature_data_tomotwin, prediction_data, prediction_labels,
                 prediction_counts, model, features, model_fit_worker,
                 prediction_worker, background_estimation_worker, events, live_pred,
                 raised, selVars>>

----------------------------------------------------------------------------
\* Slots run by the main thread's event loop

\* on_model_fit_completed with the checkbox test left out (used to test C8)
on_model_fit_completed_unchecked ==
  /\ events # <<>>
  /\ LET j == Head(events)
         delivered == [workers EXCEPT ![j].st = "delivered"]
     IN
       /\ workers[j].kind = "fit" /\ workers[j].st = "returned"
       /\ model' = workers[j].result
       /\ raised' = "none"
       /\ IF model' # None /\ Count("predict") < MaxPredicts
          THEN /\ workers' = Append(Quit(delivered, prediction_worker),
                                    NewWorker("predict", None, features))
               /\ prediction_worker' = Len(workers) + 1
          ELSE /\ workers' = delivered
               /\ UNCHANGED prediction_worker
  /\ events' = Tail(events)
  /\ UNCHANGED <<feature_data_tomotwin, painting_data, prediction_data,
                 prediction_labels, prediction_counts, features, model_fit_worker,
                 background_estimation_worker, live_pred, selVars>>

\* on_model_fit_completed: the result becomes the model; with live prediction ticked
\* and a model, the argument self.prepared_features (assigned nowhere) is evaluated
on_model_fit_completed ==
  /\ events # <<>>
  /\ LET j == Head(events) IN
       /\ workers[j].kind = "fit" /\ workers[j].st = "returned"
       /\ model' = workers[j].result
       /\ raised' = IF live_pred /\ model' # None THEN "AttributeError" ELSE "none"
       /\ workers' = [workers EXCEPT ![j].st = "delivered"]
  /\ events' = Tail(events)
  /\ UNCHANGED <<feature_data_tomotwin, painting_data, prediction_data,
                 prediction_labels, prediction_counts, features, model_fit_worker,
                 prediction_worker, background_estimation_worker, live_pred, selVars>>

\* on_prediction_completed storing the first voxel of the result only (used to test
\* C14)
on_prediction_completed_partial ==
  /\ events # <<>>
  /\ LET j == Head(events)
         result == workers[j].result
     IN
       /\ workers[j].kind = "predict" /\ workers[j].st = "returned"
       /\ prediction_data' =
            [prediction_data EXCEPT !.data[1] = Transpose(result.prediction).data[1]]
       /\ prediction_labels' = result.prediction_labels
       /\ prediction_counts' = result.prediction_counts
       /\ workers' = [workers EXCEPT ![j].st = "delivered"]
  /\ chart' = update_class_distribution_charts(painting_labels, painting_counts,
                                                prediction_labels', prediction_counts',
                                                chart)
  /\ events' = Tail(events)
  /\ raised' = "none"
  /\ UNCHANGED <<feature_data_tomotwin, painting_data, model, features,
                 model_fit_worker, prediction_worker, background_estimation_worker,
                 live_pred, painting_labels, painting_counts, pls, pls_embedding,
                 filtered_coords, timer, threads, partial_read>>

\* on_prediction_completed going on to fit the model again (used to test C23)
on_prediction_completed_refit ==
  /\ events # <<>>
  /\ LET j == Head(events)
         result == workers[j].result
     IN
       /\ workers[j].kind = "predict" /\ workers[j].st = "returned"
       /\ prediction_data' = Transpose(result.prediction)
       /\ prediction_labels' = result.prediction_labels
       /\ prediction_counts' = result.prediction_counts
       /\ workers' = Append(Quit([workers EXCEPT ![j].st = "delivered"],
                                 model_fit_worker),
                            NewWorker("fit", painting_data, feature_data_tomotwin))
       /\ model_fit_worker' = Len(workers) + 1
  /\ chart' = update_class_distribution_charts(painting_labels, painting_counts,
                                                prediction_labels', prediction_counts',
                                                chart)
  /\ events' = Tail(events)
  /\ raised' = "none"
  /\ UNCHANGED <<feature_data_tomotwin, painting_data, model, features,
                 prediction_worker, background_estimation_worker,
                 live_pred, painting_labels, painting_counts, pls, pls_embedding,
                 filtered_coords, timer, threads, partial_read>>

\* on_prediction_completed publishing the distribution and keeping the volume it had
\* (used to test C28)
on_prediction_completed_stats_only ==
  /\ events # <<>>
  /\ LET j == Head(events)
         result == workers[j].result
     IN
       /\ workers[j].kind = "predict" /\ workers[j].st = "returned"
       /\ prediction_labels' = result.prediction_labels
       /\ prediction_counts' = result.prediction_counts
       /\ workers' = [workers EXCEPT ![j].st = "delivered"]
  /\ chart' = update_class_distribution_charts(painting_labels, painting_counts,
                                                prediction_labels', prediction_counts',
                                                chart)
  /\ events' = Tail(events)
  /\ raised' = "none"
  /\ UNCHANGED <<feature_data_tomotwin, painting_data, prediction_data, model, features,
                 model_fit_worker, prediction_worker, background_estimation_worker,
                 live_pred, painting_labels, painting_counts, pls, pls_embedding,
                 filtered_coords, timer, threads, partial_read>>

\* on_prediction_completed publishing the result as it arrives, not transposed (used
\* to test C27)
on_prediction_completed_untransposed ==
  /\ events # <<>>
  /\ LET j == Head(events)
         result == workers[j].result
     IN
       /\ workers[j].kind = "predict" /\ workers[j].st = "returned"
       /\ prediction_data' = result.prediction
       /\ prediction_labels' = result.prediction_labels
       /\ prediction_counts' = result.prediction_counts
       /\ workers' = [workers EXCEPT ![j].st = "delivered"]
  /\ chart' = update_class_distribution_charts(painting_labels, painting_counts,
                                                prediction_labels', prediction_counts',
                                                chart)
  /\ events' = Tail(events)
  /\ raised' = "none"
  /\ UNCHANGED <<feature_data_tomotwin, painting_data, model, features,
                 model_fit_worker, prediction_worker, background_estimation_worker,
                 live_pred, painting_labels, painting_counts, pls, pls_embedding,
                 filtered_coords, timer, threads, partial_read>>

\* on_prediction_completed
on_prediction_completed ==
  /\ events # <<>>
  /\ LET j == Head(events)
         result == workers[j].result
     IN
       /\ workers[j].kind = "predict" /\ workers[j].st = "returned"
       /\ prediction_data' = Transpose(result.prediction)
       /\ prediction_labels' = result.prediction_labels
       /\ prediction_counts' = result.prediction_counts
       /\ workers' = [workers EXCEPT ![j].st = "delivered"]
  /\ chart' = update_class_distribution_charts(painting_labels, painting_counts,
                                                prediction_labels', prediction_counts',
                                                chart)
  /\ events' = Tail(events)
  /\ raised' = "none"
  /\ UNCHANGED <<feature_data_tomotwin, painting_data, model, features,
                 model_fit_worker, prediction_worker, background_estimation_worker,
                 live_pred, painting_labels, painting_counts, pls, pls_embedding,
                 filtered_coords, timer, threads, partial_read>>

\* the slot create_worker connects to `errored`: the exception is raised again
reraise ==
  /\ events # <<>>
  /\ workers[Head(events)].st = "errored"
  /\ workers' = [workers EXCEPT ![Head(events)].st = "reported"]
  /\ events' = Tail(events)
  /\ raised' = "AttributeError"
  /\ UNCHANGED <<feature_data_tomotwin, painting_data, prediction_data,
                 prediction_labels, prediction_counts, model, features,
                 model_fit_worker, prediction_worker, background_estimation_worker,
                 live_pred, selVars>>

----------------------------------------------------------------------------
\* Specifications

\* __init__ over feature volume f and label volume l (the painting array is opened
\* in mode "a": it may hold labels), up to the create_embedding_plot() that ends it
Constructed(f, l) ==
  /\ feature_data_tomotwin = f
  /\ painting_data = l
  /\ prediction_data = Zeros(f.shape)
  /\ prediction_labels = None
  /\ prediction_counts = None
  /\ model = None
  /\ features = Unset
  /\ workers = <<>>
  /\ model_fit_worker = 0
  /\ prediction_worker = 0
  /\ background_estimation_worker = 0
  /\ events = <<>>
  /\ live_pred = FALSE
  /\ raised = "none"
  /\ painting_labels = UniqueLabels(l.data)
  /\ painting_counts = UniqueCounts(l.data)
  /\ pls = create_embedding_plot(<<Unset, Unset, Unset>>)[1]
  /\ pls_embedding = create_embedding_plot(<<Unset, Unset, Unset>>)[2]
  /\ filtered_coords = create_embedding_plot(<<Unset, Unset, Unset>>)[3]
  /\ chart = None
  /\ timer = FALSE
  /\ threads = <<>>
  /\ partial_read = FALSE

\* The job pipeline on a one-voxel volume
PipelineFeatures == [shape |-> <<1, 1, 1>>, data |-> <<0>>]

Init == Constructed(PipelineFeatures, Zeros(PipelineFeatures.shape))

Next ==
  \/ \E i \in DOMAIN painting_data.data, l \in Labels : Paint(i, l)
  \/ start_model_fit
  \/ start_prediction
  \/ on_live_pred_changed
  \/ start_background_estimation
  \/ \E j \in DOMAIN workers : model_fit_thread(j)
  \/ \E j \in DOMAIN workers : prediction_thread(j)
  \/ \E j \in DOMAIN workers : EmitReturned(j)
  \/ on_model_fit_completed
  \/ on_prediction_completed
  \/ reraise

Spec == Init /\ [][Next]_vars

\* Painting, the debounced refresh and the lasso selection on a row of three voxels, the
\* first and the last with the same feature value
SelFeatures == [shape |-> <<1, 1, 3>>, data |-> <<0, MaxFeat, 0>>]

InitSel == Constructed(SelFeatures, Zeros(SelFeatures.shape))

NextSel ==
  \/ \E i \in DOMAIN painting_data.data, l \in Labels : Paint(i, l)
  \/ on_data_change
  \/ \E inside \in SUBSET FeatVals, l \in Labels :
       Len(threads) < MaxThreads /\ update_painting_layer(inside, l)
  \/ \E k \in DOMAIN threads : PaintThreadWrite(k)

SpecSel == InitSel /\ [][NextSel]_vars

\* The embedding over every small volume shape, the painting being the one an earlier
\* session left in the store; the user paints the first voxel
Shapes ==
  {sh \in (1..MaxDim) \X (1..MaxDim) \X (1..MaxDim) : NVoxels(sh) <= MaxVox}

InitEmb ==
  \E sh \in Shapes :
    \E l \in [1..NVoxels(sh) -> Labels] :
      Constructed([shape |-> sh,
                   data |-> [i \in 1..NVoxels(sh) |-> (i - 1) % (MaxFeat + 1)]],
                  [shape |-> sh, data |-> l])

NextEmb ==
  \/ \E l \in Labels : Paint(1, l)
  \/ on_data_change

SpecEmb == InitEmb /\ [][NextEmb]_vars

\* The job pipeline on a two-voxel volume, the features and the painting being whatever
\* the store holds
VolShape == <<1, 1, 2>>

InitVol ==
  \E f \in [1..NVoxels(VolShape) -> FeatVals], l \in [1..NVoxels(VolShape) -> Labels] :
    Constructed([shape |-> VolShape, data |-> f], [shape |-> VolShape, data |-> l])

NextVol ==
  \/ start_model_fit
  \/ start_prediction
  \/ \E j \in DOMAIN workers : model_fit_thread(j)
  \/ \E j \in DOMAIN workers : prediction_thread(j)
  \/ \E j \in DOMAIN workers : EmitReturned(j)
  \/ on_model_fit_completed
  \/ on_prediction_completed
  \/ reraise

SpecVol == InitVol /\ [][NextVol]_vars

\* Fitting and the debounced refresh on the two-voxel volume; the user paints the
\* first voxel
NextPub ==
  \/ \E l \in Labels : Paint(1, l)
  \/ on_data_change
  \/ start_model_fit
  \/ \E j \in DOMAIN workers : model_fit_thread(j)
  \/ \E j \in DOMAIN workers : EmitReturned(j)
  \/ on_model_fit_completed

SpecPub == InitVol /\ [][NextPub]_vars

\* The background estimator over every small feature volume, nothing painted
InitBg ==
  \E sh \in Shapes :
    \E f \in [1..NVoxels(sh) -> BgFeatVals] :
      Constructed([shape |-> sh, data |-> f], Zeros(sh))

NextBg ==
  \/ estimate_background
  \/ \E j \in DOMAIN workers : BackgroundWrite(j)

SpecBg == InitBg /\ [][NextBg]_vars

\* The job pipeline over every small volume shape, the features alternating along the
\* flat index and every voxel painted with the class of its feature
InitShape ==
  \E sh \in Shapes :
    Constructed([shape |-> sh,
                 data |-> [i \in 1..NVoxels(sh) |-> (i - 1) % (MaxFeat + 1)]],
                [shape |-> sh,
                 data |-> [i \in 1..NVoxels(sh) |-> ((i - 1) % (MaxFeat + 1)) + 1]])

SpecShape == InitShape /\ [][NextVol]_vars

\* Lasso selections one after the other on the row of three voxels, each paint thread
\* writing at its own pace; the painting is the one the store holds
InitTwo ==
  \E l \in [1..NVoxels(SelFeatures.shape) -> Labels] :
    Constructed(SelFeatures, [shape |-> SelFeatures.shape, data |-> l])

NextTwo ==
  \/ \E inside \in SUBSET FeatVals, l \in Labels :
       Len(threads) < MaxSelections /\ update_painting_layer(inside, l)
  \/ \E k \in DOMAIN threads : PaintThreadWrite(k)

SpecTwo == InitTwo /\ [][NextTwo]_vars

----------------------------------------------------------------------------
\* Claims

\* still computing, or with a result on its way to the main thread
Active(j) == workers[j].st \in {"pending", "emitting", "returned"}

\* C1: when Fit(A) was requested, then Fit(B), and both results have been delivered,
\* the active model is B's, whichever result arrived first.
C1_LaterFitWins ==
  \A a, b \in Jobs("fit") :
    (a < b /\ b = model_fit_worker
       /\ workers[a].st = "delivered" /\ workers[b].st = "delivered")
      => model = workers[b].result

\* C2: at most one job of each kind is active.
C2_SingleFlight ==
  \A kind \in {"fit", "predict", "background"} :
    Cardinality({j \in Jobs(kind) : Active(j)}) <= 1

\* C3: after Predict(A) then Predict(B), once both results have been delivered the
\* prediction volume and the prediction distribution are B's, never the superseded A's.
C3_SupersededPredictionDiscarded ==
  \A a, b \in Jobs("predict") :
    (a < b /\ b = prediction_worker
       /\ workers[a].st = "delivered" /\ workers[b].st = "delivered")
      => /\ prediction_data = Transpose(workers[b].result.prediction)
         /\ prediction_labels = workers[b].result.prediction_labels
         /\ prediction_counts = workers[b].result.prediction_counts

\* C4: delivering the result of a fit whose filtered training set was empty leaves the
\* active model as it was.
C4_EmptyFitKeepsModel ==
  [][\A j \in Jobs("fit") :
       (workers[j].st = "returned" /\ workers[j].result = None
          /\ workers'[j].st = "delivered")
         => model' = model]_vars

\* C5: a prediction requested while no model has ever been fitted fails, the failure
\* is reported, and nothing of it is published: its worker never gets past the error.
C5_PredictWithoutModelFails ==
  \A j \in Jobs("predict") :
    workers[j].no_model => workers[j].st \in {"pending", "errored", "reported"}

\* C6: no read of the label volume for a training or projection batch sees a
\* selection half written.
C6_ConsistentSnapshot == ~partial_read

\* the label volume is not the one the last refresh saw
Stale ==
  \/ painting_labels # UniqueLabels(painting_data.data)
  \/ painting_counts # UniqueCounts(painting_data.data)
  \/ /\ Len(Positive(painting_data.data)) >= 2
     /\ pls # create_embedding_plot(<<pls, pls_embedding, filtered_coords>>)[1]

\* C7: every mutation of the label volume is followed by a refresh; the refresh comes
\* only from the debounce, so whenever the volume is stale the debounce is pending.
C7_MutationSchedulesRefresh == Stale => timer

\* a fit result is delivered in this step
FitDelivered ==
  \E j \in Jobs("fit") : workers[j].st = "returned" /\ workers'[j].st = "delivered"

\* C8: delivery of a fit result starts a prediction worker only if live prediction
\* is ticked at that moment.
C8_ChainOnlyIfLivePred ==
  [][(FitDelivered /\ (Len(workers') > Len(workers)
                         \/ prediction_worker' # prediction_worker))
       => live_pred]_vars

\* a fit result was delivered with live prediction off, the model is set, and no
\* prediction worker exists
C8_Witness ==
  /\ ~live_pred
  /\ model # None
  /\ \E j \in Jobs("fit") : workers[j].st = "delivered" /\ workers[j].result = model
  /\ Jobs("predict") = {}

\* the path of paint thread t encloses the point of every voxel its projection was
\* fitted on
EnclosesAll(t) ==
  \A i \in Values(t.rows) : feature_data_tomotwin.data[i] \in t.inside

\* the voxels whose projected point lies inside the path of paint thread t
InsidePath(t) ==
  {i \in DOMAIN feature_data_tomotwin.data : feature_data_tomotwin.data[i] \in t.inside}

\* C9 as claimed: a selection enclosing every projected point of a projection fitted
\* on the labeled voxels L writes exactly the voxels of L.
C9_SelectorPaintsExactlyL ==
  \A k \in DOMAIN threads :
    (threads[k].st = "done" /\ threads[k].rows # <<>> /\ EnclosesAll(threads[k]))
      => Written(threads[k]) = Values(threads[k].rows)

\* C9 as amended: such a selection writes every voxel of L and every other voxel whose
\* projected point lies inside the path, and no voxel whose point lies outside; each
\* of its writes stores the target label at the voxel it is about and nowhere else.
C9_SelectorPaintsContained ==
  [][/\ \A k \in DOMAIN threads' :
          (threads'[k].st = "done" /\ threads'[k].rows # <<>>)
            => /\ Written(threads'[k]) = InsidePath(threads'[k])
               /\ EnclosesAll(threads'[k])
                    => Values(threads'[k].rows) \subseteq Written(threads'[k])
     /\ \A k \in DOMAIN threads :
          threads'[k].todo # threads[k].todo
            => \A i \in DOMAIN painting_data.data :
                 painting_data'.data[i] =
                   IF i = Head(threads[k].todo) THEN threads[k].target_label
                   ELSE painting_data.data[i]]_vars

\* a finished selection enclosing all of L has painted a voxel outside L
C9_Witness ==
  \E k \in DOMAIN threads :
    /\ threads[k].st = "done" /\ threads[k].rows # <<>> /\ EnclosesAll(threads[k])
    /\ Values(threads[k].rows) \subseteq Written(threads[k])
    /\ Written(threads[k]) # Values(threads[k].rows)
    /\ \A i \in Written(threads[k]) : painting_data.data[i] = threads[k].target_label

\* C10: the k-th retained coordinate is the (z,y,x) coordinate of the voxel behind the
\* k-th embedding point, and only labeled voxels have a retained pair.
C10_CoordsMatchVoxels ==
  filtered_coords # Unset
    => /\ Len(filtered_coords) = Len(pls_embedding)
       /\ \A k \in DOMAIN filtered_coords :
            /\ filtered_coords[k] = Unravel(pls.rows[k] - 1, painting_data.shape)
            /\ pls_embedding[k] =
                 Transform(pls, feature_data_tomotwin.data[pls.rows[k]])

\* the fit workers whose function has returned a classifier
Fitted == {j \in Jobs("fit") : workers[j].st # "pending" /\ workers[j].result # None}

\* C11: the labels handed to the classifier are remapped to a 0-based contiguous range:
\* with k distinct positive labels painted, the training labels are exactly 0..k-1.
C11_TrainingLabelsContiguous ==
  \A j \in Fitted :
    LET y == Values(workers[j].result.y)
    IN y = 0..(Cardinality(y) - 1)

\* C16: a fit requested while no voxel is labeled is skipped: no worker is launched,
\* the model and the cached features stay as they were, and nothing is raised.
C16_EmptyLabelSetSkipsFit ==
  [][(start_model_fit /\ Len(Positive(painting_data.data)) = 0)
       => /\ UNCHANGED <<workers, model_fit_worker, model, features>>
          /\ raised' = "none"]_vars

\* C19: every voxel of a published prediction is the class index the model gives the
\* voxel plus 1, so with K classes in the model every published value is in 1..K and
\* 0 is never published.
C19_PublishedPredictionInRange ==
  \A j \in Jobs("predict") :
    workers[j].st = "delivered"
      => \E f \in Fitted :
           LET m == workers[f].result
               K == Cardinality(Values(m.y))
               published == Transpose(workers[j].result.prediction)
           IN /\ published.shape = workers[j].features.shape
              /\ \A i \in DOMAIN published.data :
                   /\ published.data[i] = m.decide[workers[j].features.data[i]] + 1
                   /\ published.data[i] \in 1..K

\* C18: the training set is the voxels with label > 0, each once, with its features
\* and its label less 1; no voxel with label 0 gives a row, and a fit with no labeled
\* voxel returns no classifier.
C18_TrainingSetIsLabeledVoxels ==
  \A j \in Jobs("fit") :
    workers[j].st # "pending"
      => LET lab == workers[j].labels.data
             feat == workers[j].features.data
             m == workers[j].result
         IN IF m = None
            THEN \A i \in DOMAIN lab : lab[i] = 0
            ELSE /\ Len(m.X) = Len(m.y)
                 /\ \A f \in FeatVals, c \in Labels :
                      Cardinality({k \in DOMAIN m.y : m.X[k] = f /\ m.y[k] + 1 = c})
                        = IF c = 0 THEN 0
                          ELSE Cardinality({i \in DOMAIN lab : feat[i] = f /\ lab[i] = c})

\* a classifier was fitted on a volume with a labeled and an unlabeled voxel
C18_Witness ==
  \E j \in Fitted :
    /\ \E i \in DOMAIN workers[j].labels.data : workers[j].labels.data[i] = 0
    /\ Len(workers[j].result.y) = 1

\* the prediction volume is all zeros or the whole output of a delivered prediction
WholePrediction ==
  \/ prediction_data = Zeros(feature_data_tomotwin.shape)
  \/ \E j \in Jobs("predict") :
       /\ workers[j].st = "delivered"
       /\ prediction_data = Transpose(workers[j].result.prediction)

\* C14: the prediction volume changes only when a prediction result is delivered, and
\* then to the whole of that result; it never holds part of one prediction beside part
\* of another, and a prediction that fails leaves it as it was.
C14_PredictionVolumeWholesale ==
  [][/\ prediction_data' # prediction_data
          => \E j \in Jobs("predict") :
               /\ workers[j].st = "returned" /\ workers'[j].st = "delivered"
               /\ prediction_data' = Transpose(workers[j].result.prediction)
     /\ \A j \in Jobs("predict") :
          (workers'[j].st \in {"errored", "reported"} /\ workers'[j].st # workers[j].st)
            => prediction_data' = prediction_data
     /\ WholePrediction']_vars

\* one prediction failed and was reported, another was delivered and is the volume,
\* its voxels not all alike
C14_Witness ==
  /\ \E j \in Jobs("predict") : workers[j].st = "reported"
  /\ \E j \in Jobs("predict") :
       /\ workers[j].st = "delivered"
       /\ prediction_data = Transpose(workers[j].result.prediction)
       /\ prediction_data.data[1] # prediction_data.data[2]

\* C17: every publication of a model by a successful fit is followed, after the
\* debounce, by an embedding rebuild; the rebuild runs only when the debounce expires,
\* so the publication leaves the debounce pending.
C17_PublicationSchedulesRebuild ==
  [][(FitDelivered /\ model' # None) => timer']_vars

\* C15: a refresh that finds fewer than two labeled voxels produces no projection and
\* leaves the previous projection, its points and its coordinates as they were.
C15_TooFewSamplesKeepsProjection ==
  [][(on_data_change /\ Len(Positive(painting_data.data)) < 2)
       => UNCHANGED <<pls, pls_embedding, filtered_coords>>]_vars

\* a projection exists, fewer than two voxels are labeled, and the refresh has run
\* since the last stroke
C15_Witness ==
  /\ pls # Unset /\ pls_embedding # Unset /\ filtered_coords # Unset
  /\ Len(Positive(painting_data.data)) < 2
  /\ ~timer
  /\ threads = <<>>
  /\ painting_counts = UniqueCounts(painting_data.data)

\* C20: a selection with path P and target label t writes t to exactly the voxels whose
\* projected point lies inside P, each flat index unravelled to (z,y,x) against the
\* volume shape; a write changes no other voxel; the count the thread reports is the
\* number of contained points.
C20_SelectorFrame ==
  [][/\ \A k \in DOMAIN threads :
          threads'[k].todo # threads[k].todo
            => LET idx == Head(threads[k].todo) - 1
                   zyx == Unravel(idx, painting_data.shape)
               IN /\ idx + 1 \in InsidePath(threads[k])
                  /\ painting_data' =
                       [painting_data EXCEPT
                          !.data[Ravel(zyx, painting_data.shape) + 1] =
                             threads[k].target_label]
     /\ \A k \in DOMAIN threads' :
          IF threads'[k].st = "done"
          THEN /\ Written(threads'[k]) = InsidePath(threads'[k])
               /\ threads'[k].printed = <<Cardinality(InsidePath(threads'[k]))>>
          ELSE threads'[k].printed = <<>>]_vars

\* a selection has ended having painted some voxels but not all, and has reported how
\* many; the voxels it painted hold its label and a voxel it left holds another
C20_Witness ==
  \E k \in DOMAIN threads :
    LET t == threads[k]
    IN /\ t.st = "done"
       /\ Written(t) # {} /\ Written(t) # DOMAIN painting_data.data
       /\ t.printed = <<Cardinality(Written(t))>>
       /\ \A i \in DOMAIN painting_data.data :
            (painting_data.data[i] = t.target_label) <=> (i \in Written(t))

\* the background jobs that have run to their end
BackgroundDone == {j \in Jobs("background") : workers[j].st = "done"}

\* C12: after a background job, every voxel whose distance to the median is at or
\* below the percentile threshold carries the background label 1.
C12_AtOrBelowThresholdLabeled ==
  BackgroundDone # {}
    => LET d == Distances2(feature_data_tomotwin.data)
       IN \A i \in DOMAIN d :
            100 * d[i] <= Percentile1x100(d) => painting_data.data[i] = 1

\* C13: on a feature field without variance a background job labels every voxel (or
\* fails with an error, in which case it does not run to its end); it never ends
\* with no voxel labeled.
C13_ZeroVarianceHandled ==
  (/\ BackgroundDone # {}
   /\ \A i, k \in DOMAIN feature_data_tomotwin.data :
        feature_data_tomotwin.data[i] = feature_data_tomotwin.data[k])
    => \A i \in DOMAIN painting_data.data : painting_data.data[i] = 1


\* C21: a selection submitted while no projection has ever been fitted reaches the
\* caller as an error, and the label volume is left as it was.
C21_SelectionWithoutProjectionRaises ==
  [][(pls = Unset /\ Len(threads') > Len(threads))
       => (raised' # "none" /\ painting_data' = painting_data)]_vars

\* the debounced refresh runs in this step
RefreshRuns == timer /\ ~timer'

\* C22: the refresh run after a mutation of the label volume starts no fit and no
\* prediction: the workers, the model and the prediction volume are as before.
C22_RefreshStartsNoJob ==
  [][RefreshRuns
       => UNCHANGED <<workers, model_fit_worker, prediction_worker, model,
                      prediction_data>>]_vars

\* a fit was started, the volume was painted after it, the refresh has run on the
\* painted volume, and the fit worker is still the one computing on the old labels
C22_Witness ==
  /\ ~timer
  /\ painting_labels = UniqueLabels(painting_data.data)
  /\ painting_counts = UniqueCounts(painting_data.data)
  /\ model_fit_worker # 0
  /\ Len(workers) = 1
  /\ workers[1].st = "pending"
  /\ workers[1].labels # painting_data

\* a prediction result is delivered in this step
PredictionDelivered ==
  \E j \in Jobs("predict") : workers[j].st = "returned" /\ workers'[j].st = "delivered"

\* C23: delivery of a prediction result starts no fit: the fit worker, every fit job
\* and the model are as before.
C23_PredictNeverChainsIntoFit ==
  [][PredictionDelivered
       => /\ model' = model
          /\ model_fit_worker' = model_fit_worker
          /\ Len(workers') = Len(workers)
          /\ \A j \in Jobs("fit") : workers'[j] = workers[j]]_vars

\* a prediction was delivered with a model fitted, and no fit job is younger than it
C23_Witness ==
  /\ model # None
  /\ \E j \in Jobs("predict") :
       /\ workers[j].st = "delivered"
       /\ model_fit_worker # 0
       /\ \A f \in Jobs("fit") : f < j

\* C25: when a fit result carrying a model is delivered with live prediction ticked,
\* a prediction is started: a new prediction worker is waiting to run.
C25_LivePredChainsIntoPredict ==
  [][(FitDelivered /\ live_pred /\ model' # None)
       => /\ prediction_worker' # prediction_worker
          /\ prediction_worker' \in DOMAIN workers'
          /\ workers'[prediction_worker'].kind = "predict"
          /\ workers'[prediction_worker'].st = "pending"]_vars

\* what figure c reports for a label: the unpainted share for label 0, the bar of the
\* painting chart for another label, nothing when c shows no such bar
ReportedPercentage(c, label) ==
  IF c = None THEN None
  ELSE IF label = 0 THEN c.unpainted
  ELSE LET bars == {b \in DOMAIN c.painting : c.painting[b].label = label}
       IN IF bars = {} THEN None
          ELSE c.painting[CHOOSE b \in bars : TRUE].percentage

\* the number of voxels of volume a holding a label
VoxelsWith(a, label) == Cardinality({i \in DOMAIN a.data : a.data[i] = label})

\* C24: after a refresh of the statistics, the percentage reported for every label
\* present in the label volume, label 0 included, is 100 * (voxels with the label) /
\* (all voxels), also when no prediction has been produced yet.
C24_RefreshReportsPercentages ==
  [][RefreshRuns
       => \A label \in Values(painting_data'.data) :
            LET p == ReportedPercentage(chart', label)
            IN /\ p # None
               /\ p.num * NVoxels(painting_data'.shape)
                    = 100 * VoxelsWith(painting_data', label) * p.den]_vars

RECURSIVE SumTo(_, _)
\* the sum of the first n entries of counts
SumTo(counts, n) == IF n = 0 THEN 0 ELSE counts[n] + SumTo(counts, n - 1)

\* C28: whenever a prediction distribution is published, its labels and counts are
\* the per-class voxel counts of the published prediction volume, and the counts sum
\* to the number of voxels.
C28_DistributionMatchesVolume ==
  prediction_counts # None
    => /\ prediction_labels = UniqueLabels(prediction_data.data)
       /\ prediction_counts = UniqueCounts(prediction_data.data)
       /\ SumTo(prediction_counts, Len(prediction_counts))
            = NVoxels(prediction_data.shape)

\* a prediction with two classes is published
C28_Witness ==
  /\ prediction_counts # None
  /\ Len(prediction_labels) = 2
  /\ \E j \in Jobs("predict") : workers[j].st = "delivered"

\* what the last refresh computed
Refreshed == <<painting_labels, painting_counts, pls, pls_embedding, filtered_coords>>

C26_LaterSelectionWins ==
  (/\ Len(threads) = 2
   /\ threads[1].st = "done" /\ threads[2].st = "done"
   /\ threads[1].target_label # threads[2].target_label)
    => \A i \in threads[1].contained \cap threads[2].contained :
         painting_data.data[i] = threads[2].target_label

\* C27: for every shape of the feature volume, the published prediction volume has
\* the shape of the features and holds at each voxel the prediction for the feature
\* of that voxel: the transpose in predict and the one in on_prediction_completed
\* cancel.
C27_TransposesCancel ==
  [][\A j \in Jobs("predict") :
       (workers[j].st = "returned" /\ workers'[j].st = "delivered")
         => /\ prediction_data'.shape = workers[j].features.shape
            /\ \E f \in Fitted :
                 \A i \in DOMAIN workers[j].features.data :
                   prediction_data'.data[i]
                     = workers[f].result.decide[workers[j].features.data[i]] + 1]_vars

\* a prediction with two classes is published on a volume whose three extents differ
C27_Witness ==
  /\ Cardinality(Values(prediction_data.shape)) = 3
  /\ Cardinality(Values(prediction_data.data)) = 2
  /\ \E j \in Jobs("predict") :
       /\ workers[j].st = "delivered"
       /\ prediction_data = Transpose(workers[j].result.prediction)

====
